---- MODULE Spec2Model ----
(***************************************************************************)
(* Decomposable Attention model for Natural Language Inference            *)
(* (scripts/natural_language_inference/decomposable_attention.py).        *)
(*                                                                         *)
(* Tensors are sequences: a rank-2 tensor [B, L] is a sequence of B rows   *)
(* of L entries, a rank-3 tensor [B, L, H] a sequence of B matrices of L   *)
(* rows of H entries.  A float is a fixed-point number: the integer n      *)
(* stands for n / One, and a product or quotient is rounded down to the    *)
(* grid.  The softmax weights alone are kept as exact fractions <<n, d>>,  *)
(* so their normalisation is exact.                                        *)
(***************************************************************************)
EXTENDS Integers, Sequences, FiniteSets, TLC

\* ---------------------------------------------------------------- bounds
\* longest sentence and most tokens (both sentences, all rows) of one call
MaxLen == 3
MaxTokens == 5
\* fractional bits of a fixed-point number
FracBits == 4

\* hidden_size / word_embed_size / inp_size the blocks are constructed with
Sizes == {1, 2}
\* vocab_size of the models constructed, batch sizes of the calls
VocabSizes == {1, 2}
BatchSizes == {1, 2}

\* ---------------------------------------------------------- fixed point
RECURSIVE Pow2(_)
Pow2(k) == IF k = 0 THEN 1 ELSE 2 * Pow2(k - 1)

One == Pow2(FracBits)

\* dropout rates the blocks are constructed with: 0. (the default) and 0.5
Rates == {0, One \div 2}

RECURSIVE Sum(_)
Sum(v) == IF v = <<>> THEN 0 ELSE v[1] + Sum(Tail(v))

Min(a, b) == IF a < b THEN a ELSE b
RECURSIVE MinOf(_)
MinOf(v) == IF Len(v) = 1 THEN v[1] ELSE Min(v[1], MinOf(Tail(v)))

\* the dot product of two fixed-point vectors, rounded once
Dot(u, v) == Sum([i \in 1..Len(u) |-> u[i] * v[i]]) \div One

\* The exponential inside softmax, for an argument d >= 0: the interpolation
\* of One * 2^(d / One) that is exact where d / One is an integer; a strictly
\* positive, strictly increasing integer.
Exp(d) == Pow2(d \div One) * (One + (d % One))

\* ------------------------------------------------------------ parameters
\* nn.Dense(units, in_units, activation): one record per dense layer; id
\* names the parameter block (weight, bias) the layer owns.
Layer(id, units, in_units, relu) ==
    [id |-> id, units |-> units, in_units |-> in_units, relu |-> relu]

\* Parameter values (in sixteenths): fixed between calls, only an optimizer
\* outside this file writes them.
WeightTable == <<8, 16, -8, 4, -4, 12>>
BiasTable == <<0, 4>>
EmbeddingTable == <<8, 16, 24>>
Sixteenth == One \div 16

Weight(id, k, i) == WeightTable[((4 * id + 5 * k + 2 * i) % 6) + 1] * Sixteenth
Bias(id, k) == BiasTable[((id + k) % 2) + 1] * Sixteenth
\* nn.Embedding(vocab_size, word_embed_size): row tok of the table
EmbeddingRow(tok, size) ==
    [i \in 1..size |-> EmbeddingTable[((2 * tok + i) % 3) + 1] * Sixteenth]

\* --------------------------------------------------------- tensor layer
\* the failed result of an operator whose operand shapes do not fit
\* (every tensor has at least one batch row, so <<>> is no tensor)
DimMismatch == <<>>

Relu(x) == IF x > 0 THEN x ELSE 0

DenseVec(layer, v) ==
    [k \in 1..layer.units |->
        LET y == (Sum([i \in 1..layer.in_units |->
                        Weight(layer.id, k, i) * v[i]]) \div One)
                 + Bias(layer.id, k)
        IN IF layer.relu THEN Relu(y) ELSE y]

\* a dense layer that does not compare the input width with in_units: it
\* reads the first in_units entries and takes the missing ones as 0
Dense_lenient(layer, x) ==
    IF x = DimMismatch THEN DimMismatch
    ELSE [b \in 1..Len(x) |-> [l \in 1..Len(x[b]) |->
            DenseVec(layer, [i \in 1..layer.in_units |->
                IF i <= Len(x[b][l]) THEN x[b][l][i] ELSE 0])]]

\* nn.Dense(..., flatten=False) on [B, L, in_units]: applied to the last axis
Dense(layer, x) ==
    IF x = DimMismatch THEN DimMismatch
    ELSE IF Len(x[1][1]) # layer.in_units THEN DimMismatch
    ELSE [b \in 1..Len(x) |-> [l \in 1..Len(x[b]) |-> DenseVec(layer, x[b][l])]]

\* nn.Dense(...) with the default flatten on a rank-2 input [B, in_units]
DenseFlat(layer, x) ==
    IF x = DimMismatch THEN DimMismatch
    ELSE IF Len(x[1]) # layer.in_units THEN DimMismatch
    ELSE [b \in 1..Len(x) |-> DenseVec(layer, x[b])]

\* The mask bit the random generator draws for one element: rng is the
\* generator's state at the call, site the dropout call within the pass.
Keep(rng, site, b, l, k) == (rng + site + b + l + k) % 2 = 0

\* one kept element, rescaled by 1 / (1 - rate)
Rescale(rate, v) == (v * One) \div (One - rate)

\* a dropout layer that draws its mask even when the rate is 0
Dropout_always(rate, rng, site, x) ==
    IF x = DimMismatch THEN x
    ELSE [b \in 1..Len(x) |-> [l \in 1..Len(x[b]) |-> [k \in 1..Len(x[b][l]) |->
            IF Keep(rng, site, b, l, k) THEN Rescale(rate, x[b][l][k]) ELSE 0]]]

\* nn.Dropout(rate) in training mode on a rank-3 tensor: rate 0 keeps every
\* element, otherwise the dropped ones are zeroed and the kept ones rescaled
Dropout(rate, rng, site, x) ==
    IF x = DimMismatch \/ rate = 0 THEN x
    ELSE [b \in 1..Len(x) |-> [l \in 1..Len(x[b]) |-> [k \in 1..Len(x[b][l]) |->
            IF Keep(rng, site, b, l, k) THEN Rescale(rate, x[b][l][k]) ELSE 0]]]

\* nn.Dropout(rate) on a rank-2 tensor
DropoutFlat(rate, rng, site, x) ==
    IF x = DimMismatch \/ rate = 0 THEN x
    ELSE [b \in 1..Len(x) |-> [k \in 1..Len(x[b]) |->
            IF Keep(rng, site, b, 0, k) THEN Rescale(rate, x[b][k]) ELSE 0]]

\* a transpose that leaves the axes where they are
Transpose_identity(x) == x

\* x.transpose([0, 2, 1])
Transpose(x) ==
    IF x = DimMismatch THEN DimMismatch
    ELSE [b \in 1..Len(x) |-> [j \in 1..Len(x[b][1]) |->
            [i \in 1..Len(x[b]) |-> x[b][i][j]]]]

\* F.batch_dot(x, y, transpose_b=True): [B, n, m] x [B, p, m] -> [B, n, p]
BatchDotT(x, y) ==
    IF x = DimMismatch \/ y = DimMismatch THEN DimMismatch
    ELSE IF Len(x) # Len(y) \/ Len(x[1][1]) # Len(y[1][1]) THEN DimMismatch
    ELSE [b \in 1..Len(x) |-> [i \in 1..Len(x[b]) |->
            [j \in 1..Len(y[b]) |-> Dot(x[b][i], y[b][j])]]]

\* F.batch_dot(w, y) with w a tensor of softmax weights (fractions):
\* [B, n, m] x [B, m, p] -> [B, n, p]
BatchDot(w, y) ==
    IF w = DimMismatch \/ y = DimMismatch THEN DimMismatch
    ELSE IF Len(w) # Len(y) \/ Len(w[1][1]) # Len(y[1]) THEN DimMismatch
    ELSE [b \in 1..Len(w) |-> [i \in 1..Len(w[b]) |->
            [k \in 1..Len(y[b][1]) |->
                Sum([j \in 1..Len(y[b]) |->
                        (w[b][i][j][1] * y[b][j][k]) \div w[b][i][j][2]])]]]

\* a softmax that masks the lowest-scoring entries: they get weight 0
\* unless every entry has the lowest score
SoftmaxVec_masked(v) ==
    LET m  == MinOf(v)
        ex == [j \in 1..Len(v) |->
                 IF v[j] = m /\ (\E k \in 1..Len(v) : v[k] > m) THEN 0
                 ELSE Exp(v[j] - m)]
        s  == Sum(ex)
    IN [j \in 1..Len(v) |-> <<ex[j], s>>]

\* softmax of one vector: exp(v[j]) / sum_k exp(v[k]), as fractions; the
\* smallest entry is subtracted from every entry first
SoftmaxVec(v) ==
    LET m  == MinOf(v)
        ex == [j \in 1..Len(v) |-> Exp(v[j] - m)]
        s  == Sum(ex)
    IN [j \in 1..Len(v) |-> <<ex[j], s>>]

\* x.softmax(axis=1): normalises over the rows of each column
Softmax_axis1(x) ==
    IF x = DimMismatch THEN DimMismatch
    ELSE LET t == Transpose(x)
         IN Transpose([b \in 1..Len(t) |-> [i \in 1..Len(t[b]) |->
                            SoftmaxVec(t[b][i])]])

\* x.softmax(): normalises over the last axis
Softmax(x) ==
    IF x = DimMismatch THEN DimMismatch
    ELSE [b \in 1..Len(x) |-> [i \in 1..Len(x[b]) |-> SoftmaxVec(x[b][i])]]

\* F.concat(x, y, dim=-1) / dim=2 on rank-3 tensors
Concat(x, y) ==
    IF x = DimMismatch \/ y = DimMismatch THEN DimMismatch
    ELSE IF Len(x) # Len(y) \/ Len(x[1]) # Len(y[1]) THEN DimMismatch
    ELSE [b \in 1..Len(x) |-> [l \in 1..Len(x[b]) |-> x[b][l] \o y[b][l]]]

\* F.concat(x, y, dim=1) on rank-2 tensors
ConcatFlat(x, y) ==
    IF x = DimMismatch \/ y = DimMismatch THEN DimMismatch
    ELSE IF Len(x) # Len(y) THEN DimMismatch
    ELSE [b \in 1..Len(x) |-> x[b] \o y[b]]

\* x[:, 0, :]: the first position instead of the mean over the positions
Mean_first(x) ==
    IF x = DimMismatch THEN DimMismatch
    ELSE [b \in 1..Len(x) |-> x[b][1]]

\* x.mean(axis=(0, 1)): pooled over the batch as well, one row per batch row
Mean_batch(x) ==
    IF x = DimMismatch THEN DimMismatch
    ELSE [b \in 1..Len(x) |-> [k \in 1..Len(x[1][1]) |->
            Sum([c \in 1..Len(x) |-> Sum([l \in 1..Len(x[c]) |-> x[c][l][k]])])
              \div (Len(x) * Len(x[1]))]]

\* x.mean(axis=1): [B, L, H] -> [B, H]
Mean(x) ==
    IF x = DimMismatch THEN DimMismatch
    ELSE [b \in 1..Len(x) |-> [k \in 1..Len(x[b][1]) |->
            Sum([l \in 1..Len(x[b]) |-> x[b][l][k]]) \div Len(x[b])]]

\* the shape of a rank-3 / rank-2 tensor
Shape3(x) == <<Len(x), Len(x[1]), Len(x[1][1])>>
Shape2(x) == <<Len(x), Len(x[1])>>

\* ------------------------------------------------ IntraSentenceAttention
\* IntraSentenceAttention.__init__(inp_size, hidden_size, dropout): the
\* layers are created, nothing is checked
IntraSentenceAttention_init(inp_size, hidden_size, dropout) ==
    [inp_size |-> inp_size, hidden_size |-> hidden_size, dropout |-> dropout,
     kind |-> "IntraSentenceAttention"]

\* self.intra_attn_emb (F_intra): dropout, dense+relu, dropout, dense+relu, dense
intra_attn_emb(blk, rng, site, x) ==
    Dense(Layer(4, blk.hidden_size, blk.hidden_size, FALSE),
      Dense(Layer(3, blk.hidden_size, blk.hidden_size, TRUE),
        Dropout(blk.dropout, rng, site + 1,
          Dense(Layer(2, blk.hidden_size, blk.inp_size, TRUE),
            Dropout(blk.dropout, rng, site, x)))))

\* IntraSentenceAttention.hybrid_forward(feature_a), with its intermediates
IntraSentenceAttention_run(blk, rng, site, feature_a) ==
    LET tilde_a  == intra_attn_emb(blk, rng, site, feature_a)
        e_matrix == BatchDotT(tilde_a, tilde_a)
        attn     == Softmax(e_matrix)
        alpha    == BatchDot(attn, tilde_a)
    IN [tilde_a |-> tilde_a, e_matrix |-> e_matrix, attn |-> attn,
        alpha |-> alpha, out |-> alpha]

\* -------------------------------------------------- DecomposableAttention
\* DecomposableAttention.__init__(inp_size, hidden_size, num_class, dropout)
DecomposableAttention_init(inp_size, hidden_size, num_class, dropout) ==
    [inp_size |-> inp_size, hidden_size |-> hidden_size, dropout |-> dropout,
     kind |-> "DecomposableAttention", num_class |-> num_class]

\* self.f, the attention function
f(blk, rng, site, x) ==
    Dense(Layer(7, blk.hidden_size, blk.hidden_size, FALSE),
      Dense(Layer(6, blk.hidden_size, blk.hidden_size, TRUE),
        Dropout(blk.dropout, rng, site + 1,
          Dense(Layer(5, blk.hidden_size, blk.inp_size, TRUE),
            Dropout(blk.dropout, rng, site, x)))))

\* self.g, the compare function
g(blk, rng, site, x) ==
    Dense(Layer(10, blk.hidden_size, blk.hidden_size, FALSE),
      Dense(Layer(9, blk.hidden_size, blk.hidden_size, TRUE),
        Dropout(blk.dropout, rng, site + 1,
          Dense(Layer(8, blk.hidden_size, blk.hidden_size * 2, TRUE),
            Dropout(blk.dropout, rng, site, x)))))

\* self.h, the predictor (its dense layers flatten, the input is rank 2)
h(blk, rng, site, x) ==
    DenseFlat(Layer(13, blk.num_class, blk.hidden_size, FALSE),
      DenseFlat(Layer(12, blk.hidden_size, blk.hidden_size, TRUE),
        DropoutFlat(blk.dropout, rng, site + 1,
          DenseFlat(Layer(11, blk.hidden_size, blk.hidden_size * 2, TRUE),
            DropoutFlat(blk.dropout, rng, site, x)))))

\* DecomposableAttention.hybrid_forward(a, b), with its intermediates
DecomposableAttention_run(blk, rng, a, b) ==
    LET tilde_a  == f(blk, rng, 10, a)
        tilde_b  == f(blk, rng, 12, b)
        e        == BatchDotT(tilde_a, tilde_b)
        w_beta   == Softmax(e)
        beta     == BatchDot(w_beta, tilde_b)
        w_alpha  == Softmax(Transpose(e))
        alpha    == BatchDot(w_alpha, tilde_a)
        compare1 == g(blk, rng, 14, Concat(tilde_a, beta))
        compare2 == g(blk, rng, 16, Concat(tilde_b, alpha))
        feature1 == Mean(compare1)
        feature2 == Mean(compare2)
        yhat     == h(blk, rng, 18, ConcatFlat(feature1, feature2))
    IN [tilde_a |-> tilde_a, alpha |-> alpha, out |-> yhat, tilde_b |-> tilde_b,
        e |-> e, w_beta |-> w_beta, beta |-> beta, w_alpha |-> w_alpha,
        compare1 |-> compare1, compare2 |-> compare2,
        feature1 |-> feature1, feature2 |-> feature2, yhat |-> yhat]

\* ---------------------------------------------------------------- NLIModel
NumClass == 3

\* NLIModel.__init__ handing DecomposableAttention an inp_size of hidden_size
\* where the concatenated features have hidden_size * 2
NLIModel_init_narrow(vocab_size, word_embed_size, hidden_size, dropout) ==
    [hidden_size |-> hidden_size, dropout |-> dropout, kind |-> "NLIModel",
     vocab_size |-> vocab_size, word_embed_size |-> word_embed_size,
     intra_attention |-> IntraSentenceAttention_init(hidden_size, hidden_size, dropout),
     model |-> DecomposableAttention_init(hidden_size, hidden_size, NumClass, dropout)]

\* NLIModel.__init__(vocab_size, word_embed_size, hidden_size, dropout)
NLIModel_init(vocab_size, word_embed_size, hidden_size, dropout) ==
    [hidden_size |-> hidden_size, dropout |-> dropout, kind |-> "NLIModel",
     vocab_size |-> vocab_size, word_embed_size |-> word_embed_size,
     intra_attention |-> IntraSentenceAttention_init(hidden_size, hidden_size, dropout),
     model |-> DecomposableAttention_init(hidden_size * 2, hidden_size, NumClass, dropout)]

\* self.word_emb(sentence): [B, L] -> [B, L, word_embed_size]
word_emb(net, sentence) ==
    [b \in 1..Len(sentence) |-> [l \in 1..Len(sentence[b]) |->
        EmbeddingRow(sentence[b][l], net.word_embed_size)]]

\* a projection that reads a window of two positions: the row of a position
\* plus the row of the first position
lin_proj_window(net, x) ==
    Dense(Layer(1, net.hidden_size, net.word_embed_size, TRUE),
          [b \in 1..Len(x) |-> [l \in 1..Len(x[b]) |->
              [i \in 1..Len(x[b][l]) |-> x[b][l][i] + x[b][1][i]]]])

\* self.lin_proj
lin_proj(net, x) ==
    Dense(Layer(1, net.hidden_size, net.word_embed_size, TRUE), x)

\* a second projection layer, with its own parameters, on the sentence2 path
Project_unshared(net, rng, site, sentence) ==
    IF site = 1 THEN lin_proj(net, Dropout(net.dropout, rng, site, word_emb(net, sentence)))
    ELSE Dense(Layer(14, net.hidden_size, net.word_embed_size, TRUE),
               Dropout(net.dropout, rng, site, word_emb(net, sentence)))

\* self.lin_proj(self.dropout_layer(self.word_emb(sentence)))
Project(net, rng, site, sentence) ==
    lin_proj(net, Dropout(net.dropout, rng, site, word_emb(net, sentence)))

\* NLIModel.hybrid_forward(sentence1, sentence2), with its intermediates
NLIModel_run(net, rng, sentence1, sentence2) ==
    LET proj1    == Project(net, rng, 1, sentence1)
        intra1   == IntraSentenceAttention_run(net.intra_attention, rng, 2, proj1)
        feature1 == Concat(proj1, intra1.out)
        proj2    == Project(net, rng, 4, sentence2)
        intra2   == IntraSentenceAttention_run(net.intra_attention, rng, 5, proj2)
        feature2 == Concat(proj2, intra2.out)
        da       == DecomposableAttention_run(net.model, rng, feature1, feature2)
    IN [out |-> da.out, feature1 |-> feature1, feature2 |-> feature2,
        proj1 |-> proj1, intra1 |-> intra1, proj2 |-> proj2, intra2 |-> intra2,
        da |-> da, pred |-> da.out]

\* ------------------------------------------------------------- the calls
\* block: the block constructed last; sentence1, sentence2: the batch of
\* token indices being prepared or passed last; width: the feature width of
\* the tensors handed to a block called on its own (0 for NLIModel);
\* status: "constructed", "batching", "returned" or "raised"; result: what
\* the last forward pass computed; prev: <<out>> when the last pass repeated
\* the arguments of the pass before it, which returned out, else <<>>.
VARIABLES block, width, sentence1, sentence2, status, result, prev

vars == <<block, width, sentence1, sentence2, status, result, prev>>

NoResult == [none |-> TRUE]
Tok(v) == 0..(v - 1)
\* states of the random generator at a call
Rngs == {0, 1}

\* the feature tensor [B, L, w] handed to a block called on its own
Feat(sentence, w) ==
    [b \in 1..Len(sentence) |-> [l \in 1..Len(sentence[b]) |->
        EmbeddingRow(sentence[b][l], w)]]

RECURSIVE SeqsOf(_, _)
SeqsOf(S, n) == IF n = 0 THEN {<<>>}
                ELSE {<<x>> \o t : x \in S, t \in SeqsOf(S, n - 1)}

\* what a constructor leaves besides the block: no batch, no result
Fresh ==
    /\ width' = 0
    /\ sentence1' = <<>>
    /\ sentence2' = <<>>
    /\ status' = "constructed"
    /\ result' = NoResult
    /\ prev' = <<>>

Init ==
    \E v \in VocabSizes, w \in Sizes, hid \in Sizes, d \in Rates :
        /\ block = NLIModel_init(v, w, hid, d)
        /\ width = 0
        /\ sentence1 = <<>>
        /\ sentence2 = <<>>
        /\ status = "constructed"
        /\ result = NoResult
        /\ prev = <<>>

Construct_NLIModel ==
    \E v \in VocabSizes, w \in Sizes, hid \in Sizes, d \in Rates :
        /\ block' = NLIModel_init(v, w, hid, d)
        /\ Fresh

Construct_IntraSentenceAttention ==
    \E inp \in Sizes, hid \in Sizes :
        /\ block' = IntraSentenceAttention_init(inp, hid, 0)
        /\ Fresh

Construct_DecomposableAttention ==
    \E inp \in Sizes, hid \in Sizes :
        /\ block' = DecomposableAttention_init(inp, hid, NumClass, 0)
        /\ Fresh

\* the caller starts a batch of B sentence pairs
NewBatch ==
    \E B \in BatchSizes, w \in Sizes :
        /\ width' = IF block.kind = "NLIModel" THEN 0 ELSE w
        /\ sentence1' = [b \in 1..B |-> <<>>]
        /\ sentence2' = [b \in 1..B |-> <<>>]
        /\ status' = "batching"
        /\ result' = NoResult
        /\ prev' = <<>>
        /\ UNCHANGED block

Vocab == IF block.kind = "NLIModel" THEN Tok(block.vocab_size)
         ELSE UNION {Tok(v) : v \in VocabSizes}

Room ==
    /\ status = "batching"
    /\ Len(sentence1) * (Len(sentence1[1]) + Len(sentence2[1]) + 1) <= MaxTokens

\* the caller appends one token to every row of sentence1 / sentence2
AddToken1 ==
    /\ Room
    /\ Len(sentence1[1]) < MaxLen
    /\ \E col \in SeqsOf(Vocab, Len(sentence1)) :
          sentence1' = [b \in 1..Len(sentence1) |-> Append(sentence1[b], col[b])]
    /\ UNCHANGED <<block, width, sentence2, status, result, prev>>

AddToken2 ==
    /\ Room
    /\ block.kind # "IntraSentenceAttention"
    /\ Len(sentence2[1]) < MaxLen
    /\ \E col \in SeqsOf(Vocab, Len(sentence2)) :
          sentence2' = [b \in 1..Len(sentence2) |-> Append(sentence2[b], col[b])]
    /\ UNCHANGED <<block, width, sentence1, status, result, prev>>

Called == status \in {"batching", "returned", "raised"}

\* the outcome of a forward pass that computed r: its result, or the raised
\* dimension-mismatch error, which ends the call
Outcome(r) ==
    /\ status' = IF r.out = DimMismatch THEN "raised" ELSE "returned"
    /\ result' = IF r.out = DimMismatch THEN NoResult ELSE r
    /\ prev' = IF status = "returned" THEN <<result.out>> ELSE <<>>
    /\ UNCHANGED <<block, width, sentence1, sentence2>>

\* net(sentence1, sentence2)
Forward_NLIModel ==
    /\ block.kind = "NLIModel"
    /\ Called
    /\ Len(sentence1[1]) >= 1
    /\ Len(sentence2[1]) >= 1
    /\ \E rng \in Rngs : Outcome(NLIModel_run(block, rng, sentence1, sentence2))

\* IntraSentenceAttention(...)(feature_a)
Forward_IntraSentenceAttention ==
    /\ block.kind = "IntraSentenceAttention"
    /\ Called
    /\ Len(sentence1[1]) >= 1
    /\ \E rng \in Rngs :
          Outcome(IntraSentenceAttention_run(block, rng, 0, Feat(sentence1, width)))

\* DecomposableAttention(...)(a, b)
Forward_DecomposableAttention ==
    /\ block.kind = "DecomposableAttention"
    /\ Called
    /\ Len(sentence1[1]) >= 1
    /\ Len(sentence2[1]) >= 1
    /\ \E rng \in Rngs :
          Outcome(DecomposableAttention_run(block, rng, Feat(sentence1, width),
                                            Feat(sentence2, width)))

Next ==
    \/ Construct_NLIModel
    \/ Construct_IntraSentenceAttention
    \/ Construct_DecomposableAttention
    \/ NewBatch
    \/ AddToken1
    \/ AddToken2
    \/ Forward_NLIModel
    \/ Forward_IntraSentenceAttention
    \/ Forward_DecomposableAttention

Spec == Init /\ [][Next]_vars

\* ------------------------------------------------------------ properties
IsNLI == block.kind = "NLIModel"
IsIntra == block.kind = "IntraSentenceAttention"
IsDecomposable == block.kind = "DecomposableAttention"
Returned == status = "returned"
NoDropout == block.dropout = 0
B1 == Len(sentence1)
L1 == Len(sentence1[1])
L2 == Len(sentence2[1])

Swap(seq, i, j) == [seq EXCEPT ![i] = seq[j], ![j] = seq[i]]
\* positions i and j of the length axis exchanged, in every batch row
SwapPositions(x, i, j) == [b \in 1..Len(x) |-> Swap(x[b], i, j)]
Pairs(n) == {p \in (1..n) \X (1..n) : p[1] < p[2]}

\* C1: a forward pass of NLIModel on sentences [B, L1] and [B, L2], B, L1,
\* L2 >= 1, never raises a dimension mismatch; every layer's output has the
\* expected shape and the result has shape [B, 3] whatever L1 and L2 are.
C1_OutputShape ==
    (IsNLI /\ status \in {"returned", "raised"}) =>
        /\ status = "returned"
        /\ Shape3(result.proj1) = <<B1, L1, block.hidden_size>>
        /\ Shape3(result.proj2) = <<B1, L2, block.hidden_size>>
        /\ Shape3(result.feature1) = <<B1, L1, 2 * block.hidden_size>>
        /\ Shape3(result.feature2) = <<B1, L2, 2 * block.hidden_size>>
        /\ Shape3(result.da.e) = <<B1, L1, L2>>
        /\ Shape3(result.da.compare1) = <<B1, L1, block.hidden_size>>
        /\ Shape3(result.da.compare2) = <<B1, L2, block.hidden_size>>
        /\ Shape2(result.da.feature1) = <<B1, block.hidden_size>>
        /\ Shape2(result.da.feature2) = <<B1, block.hidden_size>>
        /\ Shape2(result.pred) = <<B1, 3>>

C1_Witness ==
    IsNLI /\ Returned /\ L1 = MaxLen /\ L2 = 1 /\ block.hidden_size = 2

\* C2 as claimed: with dropout = 0, every reordering of the tokens of
\* sentence1 (or of sentence2) that changes the sentence changes the
\* self-attention output and changes the final scores.
C2_OrderSensitive ==
    (IsNLI /\ Returned /\ NoDropout) =>
        /\ \A p \in Pairs(L1) :
              LET s == SwapPositions(sentence1, p[1], p[2])
                  r == NLIModel_run(block, 0, s, sentence2)
              IN s # sentence1 =>
                    /\ r.intra1.out # result.intra1.out
                    /\ r.pred # result.pred
        /\ \A p \in Pairs(L2) :
              LET s == SwapPositions(sentence2, p[1], p[2])
                  r == NLIModel_run(block, 0, sentence1, s)
              IN s # sentence2 =>
                    /\ r.intra2.out # result.intra2.out
                    /\ r.pred # result.pred

\* C2 as amended: with dropout = 0, reordering the tokens of a sentence
\* reorders the rows of the IntraSentenceAttention output in the same way
\* and leaves the final scores of NLIModel unchanged.
C2_OrderInvariant ==
    /\ (IsNLI /\ Returned /\ NoDropout) =>
        /\ \A p \in Pairs(L1) :
              LET r == NLIModel_run(block, 0, SwapPositions(sentence1, p[1], p[2]),
                                    sentence2)
              IN /\ r.intra1.out = SwapPositions(result.intra1.out, p[1], p[2])
                 /\ r.pred = result.pred
        /\ \A p \in Pairs(L2) :
              LET r == NLIModel_run(block, 0, sentence1,
                                    SwapPositions(sentence2, p[1], p[2]))
              IN /\ r.intra2.out = SwapPositions(result.intra2.out, p[1], p[2])
                 /\ r.pred = result.pred
    /\ (IsIntra /\ Returned) =>
        \A p \in Pairs(L1) :
            IntraSentenceAttention_run(block, 0, 0,
                SwapPositions(Feat(sentence1, width), p[1], p[2])).out
              = SwapPositions(result.out, p[1], p[2])

\* a reordering of sentence1 that does change the self-attention output
C2_Witness ==
    /\ IsNLI /\ Returned /\ NoDropout /\ L1 = 3
    /\ SwapPositions(result.intra1.out, 1, 3) # result.intra1.out
    /\ SwapPositions(result.intra1.out, 1, 2) # result.intra1.out

\* every row of w has n entries with one positive denominator, and the
\* numerators add up to it: the fractions of the row sum to 1
RowsSumToOne(w, m, n) ==
    /\ w # DimMismatch
    /\ \A b \in 1..Len(w) :
          /\ Len(w[b]) = m
          /\ \A i \in 1..m :
                /\ Len(w[b][i]) = n
                /\ w[b][i][1][2] > 0
                /\ \A j \in 1..n : w[b][i][j][2] = w[b][i][1][2]
                /\ Sum([j \in 1..n |-> w[b][i][j][1]]) = w[b][i][1][2]

\* C3: the attention weights are row-stochastic over the intended axis: the
\* self-attention weights of position i sum to 1 over all L positions, the
\* weights used for beta over the L2 axis, those used for alpha over L1.
C3_RowStochastic ==
    /\ (IsNLI /\ Returned) =>
          /\ RowsSumToOne(result.intra1.attn, L1, L1)
          /\ RowsSumToOne(result.intra2.attn, L2, L2)
          /\ RowsSumToOne(result.da.w_beta, L1, L2)
          /\ RowsSumToOne(result.da.w_alpha, L2, L1)
    /\ (IsIntra /\ Returned) => RowsSumToOne(result.attn, L1, L1)
    /\ (IsDecomposable /\ Returned) =>
          /\ RowsSumToOne(result.w_beta, L1, L2)
          /\ RowsSumToOne(result.w_alpha, L2, L1)

\* unequal weights in both directions, on sentences of different lengths
C3_Witness ==
    /\ IsNLI /\ Returned /\ L1 = 3 /\ L2 = 2
    /\ result.da.w_alpha[1][1][1] # result.da.w_alpha[1][1][2]
    /\ result.da.w_beta[1][1][1] # result.da.w_beta[1][1][2]
    /\ result.intra1.attn[1][1][1] # result.intra1.attn[1][1][2]

\* C4: both sentences go through the same parameters: with dropout = 0,
\* equal tokens get equal projected features on the two paths, the same
\* sentence on both sides gives feature1 = feature2, and f and g map equal
\* rows of the two sides to equal rows.
C4_WeightSharing ==
    (IsNLI /\ Returned /\ NoDropout) =>
        /\ \A b \in 1..B1, i \in 1..L1, j \in 1..L2 :
              /\ sentence1[b][i] = sentence2[b][j]
                    => result.proj1[b][i] = result.proj2[b][j]
              /\ result.feature1[b][i] = result.feature2[b][j]
                    => result.da.tilde_a[b][i] = result.da.tilde_b[b][j]
              /\ (result.da.tilde_a[b][i] \o result.da.beta[b][i]
                    = result.da.tilde_b[b][j] \o result.da.alpha[b][j])
                    => result.da.compare1[b][i] = result.da.compare2[b][j]
        /\ sentence1 = sentence2 =>
              /\ result.feature1 = result.feature2
              /\ result.da.tilde_a = result.da.tilde_b
              /\ result.da.compare1 = result.da.compare2

C4_Witness ==
    /\ IsNLI /\ Returned /\ NoDropout
    /\ sentence1 = sentence2 /\ L1 = 2
    /\ sentence1[1][1] # sentence1[1][2]
    /\ result.feature1[1][1] # result.feature1[1][2]

\* C5: with dropout = 0, a forward pass of NLIModel that repeats the
\* arguments of the pass before it returns what that pass returned.
C5_Deterministic ==
    (IsNLI /\ Returned /\ NoDropout /\ prev # <<>>) => prev[1] = result.pred

C5_Witness ==
    IsNLI /\ Returned /\ NoDropout /\ prev # <<>> /\ L1 = 2 /\ L2 = 2

\* C6: with dropout = 0, row k of the output is what the model returns for
\* row k of sentence1 and row k of sentence2 alone, and exchanging two
\* batch rows of both inputs exchanges the same two rows of the output.
C6_BatchIndependent ==
    (IsNLI /\ Returned /\ NoDropout /\ B1 >= 2) =>
        /\ \A k \in 1..B1 :
              NLIModel_run(block, 0, <<sentence1[k]>>, <<sentence2[k]>>).pred
                = <<result.pred[k]>>
        /\ \A p \in Pairs(B1) :
              NLIModel_run(block, 0, Swap(sentence1, p[1], p[2]),
                           Swap(sentence2, p[1], p[2])).pred
                = Swap(result.pred, p[1], p[2])

C6_Witness ==
    /\ IsNLI /\ Returned /\ NoDropout /\ B1 = 2
    /\ result.pred[1] # result.pred[2]

\* sentence with token t at position j of every row
ReplaceToken(sentence, j, t) ==
    [b \in 1..Len(sentence) |-> [sentence[b] EXCEPT ![j] = t]]

\* C7: the embedding and projection stage maps [B, L] to [B, L,
\* hidden_size], and with dropout = 0 the feature at position i depends on
\* the token at position i alone: replacing the token at another position
\* leaves it unchanged.
C7_Pointwise ==
    (IsNLI /\ Returned /\ NoDropout) =>
        /\ Shape3(result.proj1) = <<B1, L1, block.hidden_size>>
        /\ Shape3(result.proj2) = <<B1, L2, block.hidden_size>>
        /\ \A j \in 1..L1, t \in Tok(block.vocab_size) :
              LET q == Project(block, 0, 1, ReplaceToken(sentence1, j, t))
              IN \A b \in 1..B1, i \in 1..L1 :
                    i # j => q[b][i] = result.proj1[b][i]
        /\ \A b \in 1..B1, i \in 1..L1 :
              result.proj1[b][i]
                = Project(block, 0, 1, <<<<sentence1[b][i]>>>>)[1][1]

\* replacing the first token changes the feature at the first position
C7_Witness ==
    /\ IsNLI /\ Returned /\ NoDropout /\ L1 = 3 /\ block.vocab_size = 2
    /\ Project(block, 0, 1, ReplaceToken(sentence1, 1, 1 - sentence1[1][1]))[1][1]
          # result.proj1[1][1]

\* C8: a block whose inp_size differs from the width of the tensor passed
\* in is constructed like any other; a forward pass raises exactly when the
\* two differ, it leaves no result, and a repeated pass raises again.
C8_LateMismatch ==
    /\ status \in {"constructed", "batching"} => result = NoResult
    /\ ((IsIntra \/ IsDecomposable) /\ status \in {"returned", "raised"}) =>
          /\ status = "raised" <=> width # block.inp_size
          /\ status = "raised" => result = NoResult /\ prev = <<>>

C8_Witness ==
    /\ IsDecomposable /\ status = "raised"
    /\ width = 2 * block.hidden_size /\ block.inp_size # width

AllPositive(w) ==
    \A b \in 1..Len(w) : \A i \in 1..Len(w[b]) : \A j \in 1..Len(w[b][i]) :
        w[b][i][j][1] > 0 /\ w[b][i][j][2] > 0

\* feature is the mean of compare over all of its positions, rounded down
MeanOverAll(feature, compare) ==
    \A b \in 1..Len(compare) : \A k \in 1..Len(compare[b][1]) :
        LET total == Sum([l \in 1..Len(compare[b]) |-> compare[b][l][k]])
        IN /\ feature[b][k] * Len(compare[b]) <= total
           /\ total < (feature[b][k] + 1) * Len(compare[b])

\* C9: no position is masked: every position of the attended sequence,
\* whatever its token, gets a strictly positive attention weight, in the
\* self-attention and in both directions of the cross-attention, and the
\* pooled features average over all L1 (L2) positions.
C9_NoMask ==
    /\ (IsNLI /\ Returned) =>
          /\ AllPositive(result.intra1.attn) /\ Shape3(result.intra1.attn) = <<B1, L1, L1>>
          /\ AllPositive(result.intra2.attn) /\ Shape3(result.intra2.attn) = <<B1, L2, L2>>
          /\ AllPositive(result.da.w_beta) /\ Shape3(result.da.w_beta) = <<B1, L1, L2>>
          /\ AllPositive(result.da.w_alpha) /\ Shape3(result.da.w_alpha) = <<B1, L2, L1>>
          /\ MeanOverAll(result.da.feature1, result.da.compare1)
          /\ MeanOverAll(result.da.feature2, result.da.compare2)
    /\ (IsIntra /\ Returned) => AllPositive(result.attn)
    /\ (IsDecomposable /\ Returned) =>
          /\ AllPositive(result.w_beta)
          /\ AllPositive(result.w_alpha)
          /\ MeanOverAll(result.feature1, result.compare1)
          /\ MeanOverAll(result.feature2, result.compare2)

\* a sentence that holds token 0 (the usual padding index) beside token 1
C9_Witness ==
    /\ IsNLI /\ Returned /\ L1 = 3 /\ L2 = 2
    /\ sentence1[1] = <<1, 0, 0>> /\ sentence2[1] = <<1, 0>>
    /\ result.da.w_beta[1][1][2] # result.da.w_beta[1][1][1]

\* C10: with dropout = 0, DecomposableAttention called on (b, a) computes
\* the transpose of the score matrix of the call on (a, b), with beta and
\* alpha exchanged and the two pooled compare vectors exchanged; its scores
\* are h of the pooled vectors concatenated in the other order.
SwappedCall(blk, a, b, d) ==
    LET r == DecomposableAttention_run(blk, 0, b, a)
    IN /\ r.e = Transpose(d.e)
       /\ r.w_beta = d.w_alpha /\ r.w_alpha = d.w_beta
       /\ r.beta = d.alpha /\ r.alpha = d.beta
       /\ r.feature1 = d.feature2 /\ r.feature2 = d.feature1
       /\ r.yhat = h(blk, 0, 18, ConcatFlat(d.feature2, d.feature1))

C10_RoleSymmetry ==
    /\ (IsNLI /\ Returned /\ NoDropout) =>
          SwappedCall(block.model, result.feature1, result.feature2, result.da)
    /\ (IsDecomposable /\ Returned) =>
          SwappedCall(block, Feat(sentence1, width), Feat(sentence2, width), result)

C10_Witness ==
    /\ IsNLI /\ Returned /\ NoDropout /\ L1 = 3 /\ L2 = 2
    /\ result.da.feature1 # result.da.feature2
    /\ result.da.beta[1][1] # result.da.alpha[1][1]

====
